---- MODULE Spec2Model ----
(***************************************************************************)
(* Model of SoilTentionCurve_2.py: the piecewise retention-curve functions *)
(* Campbell and BC, sig_symbol, and the SoilTensionCalculator handlers     *)
(* load_file, the combobox selections, the parameter entries and curve().  *)
(*                                                                         *)
(* Numbers.  p-values are integers counting ten-thousandths.  Tensions and *)
(* model parameters are integers; model results are exact rationals        *)
(* <<num, den>> in lowest terms, with <<1, 0>> for +inf, <<-1, 0>> for     *)
(* -inf and <<0, 0>> for nan (numpy's results of x / 0 and 0 * inf).       *)
(* Text (file cells, entry texts) is a tuple of one-character strings.     *)
(* Python's 0-based list positions are 1-based here.                       *)
(***************************************************************************)
EXTENDS Integers, Sequences, FiniteSets, TLC

(***************************************************************************)
(* Bounds of the explored input space.                                     *)
(***************************************************************************)
MaxP == 2000
MaxLen == 3
MaxX == 4
MaxThreshold == 3
MaxLamda == 2
MaxRows == 4

VARIABLES
    \* sig_symbol harness
    p, symbol,
    \* Campbell / BC harness
    fn, x, par, mask, out,
    \* SoilTensionCalculator
    in_file, in_file_data, sand_values, silt_values,
    sand_select_combo, silt_select_combo, model_select_combo,
    entries, last

sigVars == <<p, symbol>>
fnVars == <<fn, x, par, mask, out>>
uiInputs == <<in_file, in_file_data, sand_values, silt_values,
              sand_select_combo, silt_select_combo, model_select_combo, entries>>
uiVars == <<in_file, in_file_data, sand_values, silt_values,
            sand_select_combo, silt_select_combo, model_select_combo, entries, last>>
vars == <<p, symbol, fn, x, par, mask, out,
          in_file, in_file_data, sand_values, silt_values,
          sand_select_combo, silt_select_combo, model_select_combo, entries, last>>

(***************************************************************************)
(* Generic helpers.                                                        *)
(***************************************************************************)
BoundedSeq(S, n) == UNION {[1..k -> S] : k \in 0..n}

Abs(a) == IF a < 0 THEN -a ELSE a

RECURSIVE Gcd(_, _)
Gcd(a, b) == IF b = 0 THEN a ELSE Gcd(b, a % b)

Sign(a) == IF a > 0 THEN 1 ELSE IF a < 0 THEN -1 ELSE 0

\* IEEE-style rational with the three non-finite values.
Rat(n, d) ==
    IF d = 0 THEN <<Sign(n), 0>>
    ELSE LET g == Gcd(Abs(n), Abs(d))
             s == IF d < 0 THEN -1 ELSE 1
         IN  <<(s * n) \div g, (s * d) \div g>>

RMul(a, b) == Rat(a[1] * b[1], a[2] * b[2])

RAdd(a, b) ==
    IF a[2] = 0 /\ b[2] = 0
    THEN (IF a[1] = b[1] THEN a ELSE <<0, 0>>)
    ELSE IF a[2] = 0 THEN a
    ELSE IF b[2] = 0 THEN b
    ELSE Rat(a[1] * b[2] + b[1] * a[2], a[2] * b[2])

RECURSIVE RPowNat(_, _)
RPowNat(a, e) == IF e = 0 THEN <<1, 1>> ELSE RMul(a, RPowNat(a, e - 1))

\* a ** e for an integer exponent e; 0 ** negative is +inf as in numpy.
RPow(a, e) == IF e >= 0 THEN RPowNat(a, e) ELSE RPowNat(Rat(a[2], a[1]), -e)

(***************************************************************************)
(* sig_symbol (lines 56-65).  Thresholds in ten-thousandths.               *)
(***************************************************************************)
P05 == 500
P01 == 100
P001 == 10

sig_symbol_ge(q) ==
    IF q >= P05 THEN "ns"
    ELSE IF q >= P01 THEN "*"
    ELSE IF q >= P001 THEN "**"
    ELSE "***"

sig_symbol(q) ==
    IF q > P05 THEN "ns"
    ELSE IF q > P01 THEN "*"
    ELSE IF q > P001 THEN "**"
    ELSE "***"

SigInit ==
    /\ p \in 0..MaxP
    /\ symbol = "unset"

ApplySig ==
    /\ symbol = "unset"
    /\ symbol' = sig_symbol(p)
    /\ UNCHANGED p

(***************************************************************************)
(* Campbell and BC (lines 42-53).  np.where evaluates the condition array  *)
(* and BOTH branch arrays over every element, then selects per element.    *)
(***************************************************************************)
np_where(cond, a, b) == [i \in 1..Len(cond) |-> IF cond[i] THEN a ELSE b[i]]

LeqArray_lt(xs, t) == [i \in 1..Len(xs) |-> xs[i] < t]

\* x <= he, element-wise
LeqArray(xs, t) == [i \in 1..Len(xs) |-> xs[i] <= t]

\* qs * (x / he) ** (-1.0 / b), element-wise; b is +1 or -1 so -1/b is an integer
CampbellPower(xs, qs, he, b) ==
    [i \in 1..Len(xs) |-> RMul(<<qs, 1>>, RPow(Rat(xs[i], he), (-1) \div b))]

Campbell(xs, qs, he, b) ==
    np_where(LeqArray(xs, he), <<qs, 1>>, CampbellPower(xs, qs, he, b))

\* qr + (qs - qr) * (x / sib) ** (-lamda), element-wise
BCPower(xs, qs, qr, lamda, sib) ==
    [i \in 1..Len(xs) |->
        RAdd(<<qr, 1>>, RMul(<<qs - qr, 1>>, RPow(Rat(xs[i], sib), -lamda)))]

BC(xs, qs, qr, lamda, sib) ==
    np_where(LeqArray(xs, sib), <<qs, 1>>, BCPower(xs, qs, qr, lamda, sib))

Tensions == BoundedSeq(0..MaxX, MaxLen) \ {<<>>}
CampbellParams == [qs : {2, 5}, he : 1..MaxThreshold, b : {-1, 1}]
BCParams == [qs : {2, 5}, qr : {0, 1}, lamda : 1..MaxLamda, sib : 1..MaxThreshold]

FnInit ==
    /\ x \in Tensions
    /\ \/ fn = "Campbell" /\ par \in CampbellParams
       \/ fn = "BC" /\ par \in BCParams
    /\ mask = <<>>
    /\ out = <<>>

\* one call: mask is the condition array the call evaluated, out its result
ApplyCampbell ==
    /\ fn = "Campbell" /\ out = <<>>
    /\ mask' = LeqArray(x, par.he)
    /\ out' = Campbell(x, par.qs, par.he, par.b)
    /\ UNCHANGED <<fn, x, par>>

ApplyBC ==
    /\ fn = "BC" /\ out = <<>>
    /\ mask' = LeqArray(x, par.sib)
    /\ out' = BC(x, par.qs, par.qr, par.lamda, par.sib)
    /\ UNCHANGED <<fn, x, par>>

(***************************************************************************)
(* Text: str.replace('.', '', 1), str.isdigit and float over the alphabet  *)
(* of the explored texts (digits, '.', '-', letters).                      *)
(***************************************************************************)
Digits == {"0", "1", "2", "3", "4", "5", "6", "7", "8", "9"}

DigitVal(c) ==
    CASE c = "0" -> 0 [] c = "1" -> 1 [] c = "2" -> 2 [] c = "3" -> 3
      [] c = "4" -> 4 [] c = "5" -> 5 [] c = "6" -> 6 [] c = "7" -> 7
      [] c = "8" -> 8 [] c = "9" -> 9

Pow10(k) == RPowNat(<<10, 1>>, k)[1]

\* position of the first '.', or 0
FirstDot(s) ==
    IF \E i \in 1..Len(s) : s[i] = "."
    THEN CHOOSE i \in 1..Len(s) : s[i] = "." /\ \A j \in 1..(i - 1) : s[j] # "."
    ELSE 0

\* s.replace('.', '', 1)
replace_first_dot(s) ==
    LET d == FirstDot(s)
    IN  IF d = 0 THEN s ELSE SubSeq(s, 1, d - 1) \o SubSeq(s, d + 1, Len(s))

\* s.isdigit(): non-empty and every character a digit
isdigit(s) == Len(s) > 0 /\ \A i \in 1..Len(s) : s[i] \in Digits

RECURSIVE DigitsValue(_)
DigitsValue(s) ==
    IF s = <<>> THEN 0
    ELSE 10 * DigitsValue(SubSeq(s, 1, Len(s) - 1)) + DigitVal(s[Len(s)])

\* float(s): [ok, val]; ok = FALSE stands for ValueError.  Accepts an optional
\* sign and a decimal numeral with at most one '.' and at least one digit.
float(s) ==
    LET neg  == Len(s) > 0 /\ s[1] = "-"
        body == IF Len(s) > 0 /\ s[1] \in {"-", "+"} THEN Tail(s) ELSE s
        d    == FirstDot(body)
        digs == replace_first_dot(body)
        frac == IF d = 0 THEN 0 ELSE Len(body) - d
    IN  IF isdigit(digs)
        THEN [ok |-> TRUE,
              val |-> Rat((IF neg THEN -1 ELSE 1) * DigitsValue(digs), Pow10(frac))]
        ELSE [ok |-> FALSE, val |-> <<0, 0>>]

(***************************************************************************)
(* The files the user can pick: contents after row.strip().split(delim).   *)
(* a.csv holds any rows of RowSet; b.csv, c.csv, empty.csv and missing.csv *)
(* are fixed: columns in the other order with cells the filter drops in    *)
(* both columns, a blank line, no line at all, and a file open() rejects.  *)
(***************************************************************************)
RowOk == << <<"1", "0">>, <<"0", ".", "4">> >>
RowFirstBad == << <<"-", "1">>, <<"0", ".", "3">> >>
RowSecondBad == << <<"1", "0", "0">>, <<"n", "a">> >>
RowBlank == << <<>> >>
RowSet == {RowOk, RowSecondBad}

FileNames == {"a.csv", "b.csv", "c.csv", "empty.csv", "missing.csv"}

HeaderOf(f) ==
    IF f = "b.csv" THEN << <<"w">>, <<"t">> >> ELSE << <<"t">>, <<"w">> >>

\* What open() and readlines() can give for a file: OSError, or its rows.
DiskReads(f) ==
    IF f = "missing.csv" THEN {[ok |-> FALSE, rows |-> <<>>]}
    ELSE IF f = "empty.csv" THEN {[ok |-> TRUE, rows |-> <<>>]}
    ELSE IF f = "b.csv"
    THEN {[ok |-> TRUE,
           rows |-> <<HeaderOf(f), RowOk, RowFirstBad, RowSecondBad, RowOk, RowOk>>]}
    ELSE IF f = "c.csv"
    THEN {[ok |-> TRUE, rows |-> <<HeaderOf(f), RowOk, RowBlank, RowOk>>]}
    ELSE {[ok |-> TRUE, rows |-> <<HeaderOf(f)>> \o r] : r \in BoundedSeq(RowSet, MaxRows)}

(***************************************************************************)
(* SoilTensionCalculator.__init__ (lines 73-98)                            *)
(***************************************************************************)
ModelName == <<"Van Genuchten Model", "Camopbell Model", "Brook and Corey Model">>

ParamNames == {"qs", "qr", "alpha", "n", "lamda", "sib", "he", "Campbell_b"}

DefaultEntries ==
    [nm \in ParamNames |->
        CASE nm = "qs" -> <<"0", ".", "5">>
          [] nm = "qr" -> <<"0", ".", "2">>
          [] nm = "alpha" -> <<"0", ".", "0", "1">>
          [] nm = "n" -> <<"2">>
          [] nm = "lamda" -> <<"1">>
          [] nm = "sib" -> <<"1", "5">>
          [] nm = "he" -> <<"1">>
          [] nm = "Campbell_b" -> <<"4">>]

\* Texts the user types into an entry in the explored runs.
TypedTexts(nm) ==
    {DefaultEntries[nm]} \cup (IF nm \in {"qs", "he"} THEN {<<"a", "b", "c">>} ELSE {})

\* The outcome of the most recent handler: the message box shown, the arrays
\* built, what was fitted, saved and plotted.
NoResult(op) ==
    [op |-> op, outcome |-> "none", exc |-> "none", built |-> FALSE,
     water |-> <<>>, tension |-> <<>>, water_rows |-> <<>>, tension_rows |-> <<>>,
     fit_func |-> "none", p0 |-> <<>>, p0_vals |-> <<>>, fit_exc |-> "none",
     run |-> "none", popt |-> FALSE, saved |-> FALSE, plotted |-> FALSE,
     plot_func |-> "none"]

UIInit ==
    /\ in_file = ""
    /\ in_file_data = <<>>
    /\ sand_values = <<>>
    /\ silt_values = <<>>
    /\ sand_select_combo = <<>>
    /\ silt_select_combo = <<>>
    /\ model_select_combo = ""
    /\ entries = DefaultEntries
    /\ last = NoResult("init")

(***************************************************************************)
(* load_file (lines 249-261) and choose_file (lines 240-247)               *)
(***************************************************************************)
load_file(filename, disk) ==
    IF ~disk.ok
    THEN \* open() raised: nothing was assigned
         /\ last' = [NoResult("load_file") EXCEPT !.outcome = "load_warning",
                                                  !.exc = "OSError"]
         /\ UNCHANGED uiInputs
    ELSE /\ in_file_data' = disk.rows
         /\ IF disk.rows = <<>>
            THEN \* self.in_file_data[0] raised IndexError after the assignment
                 /\ last' = [NoResult("load_file") EXCEPT !.outcome = "load_warning",
                                                          !.exc = "IndexError"]
                 /\ UNCHANGED <<in_file, sand_values, silt_values>>
            ELSE /\ in_file' = filename
                 /\ sand_values' = disk.rows[1]
                 /\ silt_values' = disk.rows[1]
                 /\ last' = [NoResult("load_file") EXCEPT !.outcome = "loaded"]
         /\ UNCHANGED <<sand_select_combo, silt_select_combo, model_select_combo, entries>>

choose_file ==
    \E f \in FileNames : \E disk \in DiskReads(f) : load_file(f, disk)

(***************************************************************************)
(* The read-only comboboxes and the parameter entries (lines 128-145,      *)
(* 218-224): the user picks one of the offered values, or types a text.    *)
(***************************************************************************)
select_sand ==
    \E i \in 1..Len(sand_values) :
        /\ sand_select_combo' = sand_values[i]
        /\ last' = NoResult("select")
        /\ UNCHANGED <<in_file, in_file_data, sand_values, silt_values,
                       silt_select_combo, model_select_combo, entries>>

select_silt ==
    \E i \in 1..Len(silt_values) :
        /\ silt_select_combo' = silt_values[i]
        /\ last' = NoResult("select")
        /\ UNCHANGED <<in_file, in_file_data, sand_values, silt_values,
                       sand_select_combo, model_select_combo, entries>>

select_model ==
    \E i \in 1..Len(ModelName) :
        /\ model_select_combo' = ModelName[i]
        /\ last' = NoResult("select")
        /\ UNCHANGED <<in_file, in_file_data, sand_values, silt_values,
                       sand_select_combo, silt_select_combo, entries>>

edit_entry ==
    \E nm \in ParamNames : \E txt \in TypedTexts(nm) :
        /\ entries' = [entries EXCEPT ![nm] = txt]
        /\ last' = NoResult("edit")
        /\ UNCHANGED <<in_file, in_file_data, sand_values, silt_values,
                       sand_select_combo, silt_select_combo, model_select_combo>>

(***************************************************************************)
(* return_column (lines 276-281)                                           *)
(***************************************************************************)
\* lst.index(v): the first position of v, or 0 for ValueError
list_index(lst, v) ==
    IF \E i \in 1..Len(lst) : lst[i] = v
    THEN CHOOSE i \in 1..Len(lst) : lst[i] = v /\ \A j \in 1..(i - 1) : lst[j] # v
    ELSE 0

\* the comprehension's filter: the rows of data[1:] whose cell passes
RECURSIVE KeptRows(_, _, _)
KeptRows(data, idx, r) ==
    IF r > Len(data) THEN <<>>
    ELSE (IF isdigit(replace_first_dot(data[r][idx])) THEN <<r>> ELSE <<>>)
         \o KeptRows(data, idx, r + 1)

\* [exc, rows, vals]: the exception raised, or the array and the file rows
\* its elements were read from
return_column(data, col) ==
    LET idx == list_index(data[1], col)
    IN  IF idx = 0
        THEN [exc |-> "ValueError", rows |-> <<>>, vals |-> <<>>]
        ELSE IF \E r \in 2..Len(data) : Len(data[r]) < idx
        THEN [exc |-> "IndexError", rows |-> <<>>, vals |-> <<>>]
        ELSE LET kept == KeptRows(data, idx, 2)
             IN  [exc |-> "none", rows |-> kept,
                  vals |-> [i \in 1..Len(kept) |-> float(data[kept[i]][idx]).val]]

(***************************************************************************)
(* scipy.optimize.curve_fit as curve() calls it (lines 301-320): no bounds,*)
(* so the Levenberg-Marquardt driver leastsq.  It raises ValueError for an *)
(* empty ydata or for f(xdata) - ydata not broadcastable, TypeError when   *)
(* the parameters outnumber the residuals, RuntimeError when the call      *)
(* budget maxfev runs out; otherwise it returns (popt, pcov).              *)
(***************************************************************************)
OptimizerRuns == {"converged", "maxfev"}

\* length of f(xdata) - ydata under numpy broadcasting, or -1
BroadcastLen(lx, ly) ==
    IF lx = ly THEN lx ELSE IF lx = 1 THEN ly ELSE IF ly = 1 THEN lx ELSE -1

curve_fit(xdata, ydata, p0, run) ==
    LET m == BroadcastLen(Len(xdata), Len(ydata))
    IN  IF Len(ydata) = 0 \/ m = -1 THEN "ValueError"
        ELSE IF Len(p0) > m THEN "TypeError"
        ELSE IF run = "maxfev" THEN "RuntimeError"
        ELSE "none"

(***************************************************************************)
(* curve (lines 285-345)                                                   *)
(***************************************************************************)
FitFunc_typo(model) ==
    IF model = "Van Genuchten Model" THEN "VG"
    ELSE IF model = "Campbell Model" THEN "Campbell"
    ELSE "BC"

\* the branch of lines 300-320
FitFunc(model) ==
    IF model = "Van Genuchten Model" THEN "VG"
    ELSE IF model = "Camopbell Model" THEN "Campbell"
    ELSE "BC"

\* the entries read for p0, in order (lines 302-305, 309-312, 316-319)
InitialGuess(f) ==
    IF f = "VG" THEN <<"qs", "qr", "alpha", "n">>
    ELSE IF f = "Campbell" THEN <<"qs", "he", "Campbell_b">>
    ELSE <<"qs", "qr", "lamda", "sib">>

\* the branch of lines 334-339
PlotFunc(model) ==
    IF model = "Van Genuchten Model" THEN "VG"
    ELSE IF model = "Camopbell Model" THEN "Campbell"
    ELSE "BC"

Caught_ValueError(exc) == exc = "ValueError"

Caught_InputErrors(exc) == exc \in {"ValueError", "TypeError"}

\* except Exception (line 321)
Caught(exc) == exc # "none"

\* the try block: [fit_func, p0, p0_vals, fit_exc]
try_fit(model, tension, water, ents, run) ==
    LET f     == FitFunc(model)
        names == InitialGuess(f)
        fl    == [i \in 1..Len(names) |-> float(ents[names[i]])]
    IN  IF \E i \in 1..Len(names) : ~fl[i].ok
        THEN [fit_func |-> f, p0 |-> names, p0_vals |-> <<>>, fit_exc |-> "ValueError"]
        ELSE LET vals == [i \in 1..Len(names) |-> fl[i].val]
             IN  [fit_func |-> f, p0 |-> names, p0_vals |-> vals,
                  fit_exc |-> curve_fit(tension, water, vals, run)]

on_fit_error_fallthrough(r, save) ==
    [r EXCEPT !.outcome = "Unhandled", !.exc = "NameError", !.saved = save]

\* lines 321-323: the warning, then return
on_fit_error(r, save) == [r EXCEPT !.outcome = "FitError"]

\* lines 325-345 after a fit that returned
after_fit(r, model, save) ==
    LET s == [r EXCEPT !.popt = TRUE, !.saved = save]
    IN  IF Len(r.tension) # Len(r.water)
        THEN \* plt.plot(tension, water, "*") rejects arrays of different lengths
             [s EXCEPT !.outcome = "Unhandled", !.exc = "ValueError"]
        ELSE [s EXCEPT !.outcome = "Done", !.plotted = TRUE,
                       !.plot_func = PlotFunc(model)]

\* one run of curve(): run is what the optimizer does if it is started, save
\* whether the save dialog returns a path
curve_result(run, save) ==
    LET base == NoResult("curve")
    IN  IF in_file_data = <<>>
        THEN [base EXCEPT !.outcome = "NoFile"]
        ELSE LET w == return_column(in_file_data, sand_select_combo)
             IN  IF w.exc # "none"
                 THEN [base EXCEPT !.outcome = "Unhandled", !.exc = w.exc]
                 ELSE LET t == return_column(in_file_data, silt_select_combo)
                      IN  IF t.exc # "none"
                          THEN [base EXCEPT !.outcome = "Unhandled", !.exc = t.exc]
                          ELSE LET b == [base EXCEPT !.built = TRUE,
                                             !.water = w.vals, !.water_rows = w.rows,
                                             !.tension = t.vals, !.tension_rows = t.rows]
                               IN  IF model_select_combo = ""
                                   THEN [b EXCEPT !.outcome = "NoModel"]
                                   ELSE LET f == try_fit(model_select_combo, t.vals,
                                                         w.vals, entries, run)
                                            r == [b EXCEPT !.fit_func = f.fit_func,
                                                           !.p0 = f.p0,
                                                           !.p0_vals = f.p0_vals,
                                                           !.fit_exc = f.fit_exc,
                                                           !.run = run]
                                        IN  IF f.fit_exc = "none"
                                            THEN after_fit(r, model_select_combo, save)
                                            ELSE IF Caught(f.fit_exc)
                                            THEN on_fit_error(r, save)
                                            ELSE [r EXCEPT !.outcome = "Unhandled",
                                                           !.exc = f.fit_exc]

curve_step_writeback(run, save) ==
    LET r == curve_result(run, save)
    IN  /\ last' = r
        /\ entries' = IF r.popt THEN [entries EXCEPT !["qs"] = <<"0", ".", "4">>]
                      ELSE entries
        /\ UNCHANGED <<in_file, in_file_data, sand_values, silt_values,
                       sand_select_combo, silt_select_combo, model_select_combo>>

\* curve() assigns no attribute of the calculator
curve_step(run, save) ==
    /\ last' = curve_result(run, save)
    /\ UNCHANGED uiInputs

curve ==
    \E run \in OptimizerRuns : \E save \in BOOLEAN : curve_step(run, save)

(***************************************************************************)
(* Specifications                                                          *)
(***************************************************************************)
SigIdle == p = 0 /\ symbol = "unset"
FnIdle ==
    /\ fn = "Campbell" /\ x = <<0>> /\ par = [qs |-> 2, he |-> 1, b |-> 1]
    /\ mask = <<>> /\ out = <<>>

SigNext == ApplySig /\ UNCHANGED <<fnVars, uiVars>>

\* sig_symbol applied to every p-value of the range
InitSig == SigInit /\ FnIdle /\ UIInit
SpecSig == InitSig /\ [][SigNext]_vars

CampbellNext == ApplyCampbell /\ UNCHANGED <<sigVars, uiVars>>
BCNext == ApplyBC /\ UNCHANGED <<sigVars, uiVars>>

\* Campbell and BC applied to every tension array and parameter vector
InitModels == FnInit /\ SigIdle /\ UIInit
NextModels == CampbellNext \/ BCNext
SpecModels == InitModels /\ [][NextModels]_vars

Init == SigIdle /\ FnIdle /\ UIInit

ChooseFile == choose_file /\ UNCHANGED <<sigVars, fnVars>>
SelectSand == select_sand /\ UNCHANGED <<sigVars, fnVars>>
SelectSilt == select_silt /\ UNCHANGED <<sigVars, fnVars>>
SelectModel == select_model /\ UNCHANGED <<sigVars, fnVars>>
EditEntry == edit_entry /\ UNCHANGED <<sigVars, fnVars>>
Curve == curve /\ UNCHANGED <<sigVars, fnVars>>

Next == ChooseFile \/ SelectSand \/ SelectSilt \/ SelectModel \/ EditEntry \/ Curve

\* the running application: any sequence of the user's actions
Spec == Init /\ [][Next]_vars

(***************************************************************************)
(* Properties                                                              *)
(***************************************************************************)

\* C1: sig_symbol maps p > 0.05 to "ns", 0.01 < p <= 0.05 to "*",
\* 0.001 < p <= 0.01 to "**" and p <= 0.001 to "***"; the boundary values
\* 0.05, 0.01, 0.001 map to "*", "**", "***"; 0.04 maps to "*", 0.2 to "ns".
C1_SigBoundaries ==
    symbol # "unset" =>
        /\ symbol \in {"ns", "*", "**", "***"}
        /\ (symbol = "ns") = (p > 500)
        /\ (symbol = "*") = (100 < p /\ p <= 500)
        /\ (symbol = "**") = (10 < p /\ p <= 100)
        /\ (symbol = "***") = (p <= 10)
        /\ (p = 400 => symbol = "*")
        /\ (p = 2000 => symbol = "ns")

C1_Witness == p = 500 /\ symbol = "*"

\* C2: per element, Campbell and BC select the saturated branch, and return
\* exactly qs, when x <= threshold (x = threshold included) and the power-law
\* branch only when x > threshold; an element's result does not depend on the
\* other elements of the array.
C2_ClosedSaturatedBranch ==
    out # <<>> =>
        LET th == IF fn = "Campbell" THEN par.he ELSE par.sib
            alone(i) == IF fn = "Campbell"
                        THEN Campbell(<<x[i]>>, par.qs, par.he, par.b)[1]
                        ELSE BC(<<x[i]>>, par.qs, par.qr, par.lamda, par.sib)[1]
            power(i) == IF fn = "Campbell"
                        THEN CampbellPower(<<x[i]>>, par.qs, par.he, par.b)[1]
                        ELSE BCPower(<<x[i]>>, par.qs, par.qr, par.lamda, par.sib)[1]
        IN  /\ Len(out) = Len(x)
            /\ Len(mask) = Len(x)
            /\ \A i \in 1..Len(x) :
                /\ mask[i] = (x[i] <= th)
                /\ (x[i] <= th => out[i] = <<par.qs, 1>>)
                /\ (x[i] > th => ~mask[i] /\ out[i] = power(i))
                /\ out[i] = alone(i)

C2_Witness ==
    /\ fn = "Campbell" /\ out # <<>>
    /\ \E i \in 1..Len(x) : x[i] = par.he /\ mask[i] /\ out[i] = <<par.qs, 1>>
    /\ \E j \in 1..Len(x) : x[j] > par.he /\ ~mask[j] /\ out[j] # <<par.qs, 1>>

\* C3: the tension and water-content arrays curve() builds have the same
\* length and their i-th elements come from the same row of the file.
C3_ObservationsAligned ==
    (last.op = "curve" /\ last.built) =>
        /\ Len(last.tension) = Len(last.water)
        /\ last.tension_rows = last.water_rows

ParameterCount ==
    IF model_select_combo = "Van Genuchten Model" THEN 4
    ELSE IF model_select_combo = "Camopbell Model" THEN 3
    ELSE 4

\* C4: with fewer observations than the selected model has parameters, curve()
\* reports a fit error and returns: no parameters, no file written, no plot.
C4_TooFewObservationsRejected ==
    (/\ last.op = "curve" /\ last.built /\ model_select_combo # ""
     /\ Len(last.tension) < ParameterCount
     /\ Len(last.water) < ParameterCount)
    => /\ last.outcome = "FitError"
       /\ ~last.popt /\ ~last.saved /\ ~last.plotted

C4_Witness ==
    /\ last.op = "curve" /\ last.built
    /\ model_select_combo = "Van Genuchten Model"
    /\ Len(last.tension) = 3 /\ Len(last.water) = 3
    /\ last.fit_exc = "TypeError"
    /\ last.outcome = "FitError"

\* C5: whatever the fitting call raises, curve() reports a fit error and
\* returns; nothing is saved and nothing is plotted.
C5_FitFailureReported ==
    (last.op = "curve" /\ last.fit_exc # "none") =>
        /\ last.outcome = "FitError"
        /\ last.exc = "none"
        /\ ~last.popt /\ ~last.saved /\ ~last.plotted

C5_Witness ==
    /\ last.op = "curve"
    /\ last.fit_exc = "ValueError" /\ last.p0 # <<>> /\ last.p0_vals = <<>>
    /\ last.outcome = "FitError"

\* the optimizer was started and ran out of its budget
CapReached ==
    /\ last.op = "curve" /\ last.run = "maxfev"
    /\ last.p0 # <<>> /\ Len(last.p0_vals) = Len(last.p0)
    /\ Len(last.water) > 0
    /\ BroadcastLen(Len(last.tension), Len(last.water)) >= Len(last.p0)

C7_DispatchConsistent ==
    (last.op = "curve" /\ last.fit_func # "none") =>
        /\ \E i \in 1..Len(ModelName) : model_select_combo = ModelName[i]
        /\ (model_select_combo = "Van Genuchten Model" =>
                last.fit_func = "VG" /\ last.p0 = <<"qs", "qr", "alpha", "n">>)
        /\ (model_select_combo = "Camopbell Model" =>
                last.fit_func = "Campbell" /\ last.p0 = <<"qs", "he", "Campbell_b">>)
        /\ (model_select_combo = "Brook and Corey Model" =>
                last.fit_func = "BC" /\ last.p0 = <<"qs", "qr", "lamda", "sib">>)
        /\ (last.fit_func = "BC" => model_select_combo = "Brook and Corey Model")
        /\ (last.plotted => last.plot_func = last.fit_func)
        /\ (last.plot_func = "BC" => model_select_combo = "Brook and Corey Model")
        /\ (last.p0_vals # <<>> => Len(last.p0_vals) = ParameterCount)

C7_Witness ==
    /\ last.op = "curve" /\ last.outcome = "Done"
    /\ model_select_combo = "Camopbell Model"
    /\ last.fit_func = "Campbell" /\ last.plotted /\ last.plot_func = "Campbell"
    /\ Len(last.p0_vals) = 3

\* C8: a run of curve() changes none of its inputs (entries, file data,
\* selections), so a second run in a row starts from the same initial vector
\* and the same observations.
C8_CurveLeavesInputs ==
    [][last'.op = "curve" =>
        /\ UNCHANGED uiInputs
        /\ (last.op = "curve" =>
                /\ last'.p0_vals = last.p0_vals
                /\ last'.tension = last.tension
                /\ last'.water = last.water)]_vars

C8_Witness ==
    /\ last.op = "curve" /\ last.outcome = "Done" /\ last.popt /\ last.saved
    /\ entries = DefaultEntries
    /\ Len(last.p0_vals) = 4

\* C9: the displayed file name, the values offered by both column selectors
\* and the header row of the file data belong to the same file.
C9_FileStateAgrees ==
    IF in_file = ""
    THEN in_file_data = <<>> /\ sand_values = <<>> /\ silt_values = <<>>
    ELSE /\ in_file_data # <<>>
         /\ in_file_data[1] = HeaderOf(in_file)
         /\ sand_values = HeaderOf(in_file)
         /\ silt_values = HeaderOf(in_file)

\* C10: every run of curve() ends in one of the four handled outcomes.
C10_CurveAlwaysHandled ==
    last.op = "curve" => last.outcome \in {"NoFile", "NoModel", "FitError", "Done"}

====
